---------------------------- MODULE Spec2Model ----------------------------
(***************************************************************************)
(* Model of the autonomous MCP agent (src/clients/openai_client.py) and of *)
(* the tool server it talks to (src/servers/mcp_tools/local_tools.py with  *)
(* the input models of src/servers/models/local_models.py).                *)
(*                                                                         *)
(* Spec      is the chat loop of run_autonomous_agent.  The model endpoint *)
(*           and the tool host are its environment: an inference returns a *)
(*           final answer, a batch of tool calls, or raises; a tool call   *)
(*           returns a text or raises.                                     *)
(* SpecTools is the server's call_tool applied to request payloads.        *)
(***************************************************************************)
EXTENDS Integers, Sequences, FiniteSets, TLC

\* ------------------------------------------------------------------ bounds
\* tool calls in one model response
MaxBatch == 2
\* events of one session beyond the routine path (one user turn, single-call
\* responses, successful tool results): a further user turn, each tool call
\* of a response beyond its first, an error-reporting tool result, a raised
\* exception
MaxEvents == 2
\* the cycles of a turn in which the model gives its final answer: one of the
\* first MaxAnswerCycle or the last allowed one (tool calls come in any cycle)
MaxAnswerCycle == 2
\* characters in a string of a tool payload
MaxStrLen == 2
\* operands of calculate range over -MaxOperand..MaxOperand
MaxOperand == 2

\* ------------------------------------------------- constants of the program
max_iterations == 10

\* -------------------------------------------------------------- chat loop
VARIABLES
    messages,      \* the conversation, a sequence of message records
    pc,            \* where run_autonomous_agent stands
    iteration,     \* the local counter of the turn's while loop
    tool_calls,    \* assistant_message.tool_calls of the last response
    idx,           \* position of the for loop in tool_calls (1-based)
    warned,        \* the maximum-iterations warning was printed for the turn
    errored,       \* the except handler ran for the turn
    answered,      \* the turn left the while loop through break
    \* history variables (not in the code; they only record what happened)
    turnBase,      \* messages as they were before the turn's user message
    nInfer,        \* inference requests issued in the current turn
    turns,         \* user messages accepted so far
    nextId,        \* the next fresh tool-call id the model endpoint hands out
    event,         \* what the environment did last (see Events)
    aborted,       \* turns of the session the except handler has ended
    events         \* events beyond the routine path so far (see MaxEvents)

loopVars == <<messages, pc, iteration, tool_calls, idx, warned, errored,
              answered, turnBase, nInfer, turns, nextId, event, aborted,
              events>>

\* ------------------------------------------------------------ tool server
VARIABLES
    fs,            \* the server's working directory: the regular files in it
    request,       \* the last call_tool request: [name, arguments]
    reply,         \* the output model call_tool returned for it
    handler,       \* the TOOL_HANDLERS entry that ran for it ("none": none did)
    opens          \* the open() calls made while serving it, in order

toolVars == <<fs, request, reply, handler, opens>>

vars == <<loopVars, toolVars>>

Last(s) == s[Len(s)]
Front(s) == SubSeq(s, 1, Len(s) - 1)

\* what input("You: ") can return; EOF stands for EOFError/KeyboardInterrupt
EOF == "<eof>"
UserInputs == {"", "  ", "quit", "Q", "hi", EOF}

\* (variant) an input that is not stripped
stripNothing(s) == s

\* str.strip() on the inputs above
strip(s) == IF s = "  " THEN "" ELSE s

\* str.lower() on the inputs above
lower(s) == IF s = "Q" THEN "q" ELSE s

\* what the environment of the loop did last: the user typed, the model
\* endpoint answered, returned tool calls or raised, json.loads rejected the
\* arguments of a call, the tool host returned a text or raised
Events == {"start", "eof", "quit", "empty", "message", "answer", "calls",
           "model_raises", "bad_arguments", "tool_ok", "tool_error",
           "tool_raises"}
Raises == {"model_raises", "bad_arguments", "tool_raises"}

\* texts a tool result can carry, as far as the client can tell
OkText == "ok"
ErrText == "error"
ToolTexts == {OkText, ErrText}

\* None is the content of a response that only carries tool calls; the
\* content of a response without tool calls is only printed, one text
\* stands for all of them
None == "<none>"
FinalContents == {"answer"}

Message(role, content, calls, id) ==
    [role |-> role, content |-> content, tool_calls |-> calls, tool_call_id |-> id]

SystemMessage == Message("system", "prompt", <<>>, 0)

InitLoop ==
    /\ messages = <<SystemMessage>>
    /\ pc = "input"
    /\ iteration = 0
    /\ tool_calls = <<>>
    /\ idx = 0
    /\ warned = FALSE
    /\ errored = FALSE
    /\ answered = FALSE
    /\ turnBase = <<SystemMessage>>
    /\ nInfer = 0
    /\ turns = 0
    /\ nextId = 1
    /\ event = "start"
    /\ aborted = 0
    /\ events = 0

\* ---- pure steps of run_autonomous_agent

\* messages.append({"role": "user", "content": user_input})
userMessage(text) == Message("user", text, <<>>, 0)

\* messages.append({"role": "assistant", "content": ..., "tool_calls": ...})
assistantMessage(content, calls) == Message("assistant", content, calls, 0)

\* (variant) a tool message that carries the id of the call after it
toolMessageNextId(call, text) == Message("tool", text, <<>>, call.id + 1)

\* messages.append({"role": "tool", "tool_call_id": tool_call.id, "content": tool_result})
toolMessage(call, text) == Message("tool", text, <<>>, call.id)

\* `user_input.lower() in ['quit', 'exit', 'q']`
isQuit(inp) == lower(inp) \in {"quit", "exit", "q"}

\* (variant) the loop condition off by one
whileCondInclusive(it) == it <= max_iterations

\* `while iteration < max_iterations`
whileCond(it) == it < max_iterations

\* (variant) the check after the loop with a strict comparison
ceilingReachedStrict(it) == it > max_iterations

\* `if iteration >= max_iterations` after the while loop
ceilingReached(it) == it >= max_iterations

\* `if not assistant_message.tool_calls`
noToolCalls(calls) == Len(calls) = 0

\* (variant) a for loop that keeps handing out the first call
currentCallFirst(calls, i) == calls[1]

\* the element the for loop hands out at position i
currentCall(calls, i) == calls[i]

\* (variant) a handler that pops the last message whatever its role
exceptHandlerAlwaysPop(msgs) == Front(msgs)

\* (variant) a handler that starts the conversation over from the system
\* message
exceptHandlerResets(msgs) == <<Head(msgs)>>

\* the except handler: `if messages[-1]["role"] == "user": messages.pop()`
exceptHandler(msgs) ==
    IF Last(msgs).role = "user" THEN Front(msgs) ELSE msgs

\* (variant) a handler outside `while True`: the session ends with the turn
afterHandlerLeaves == "done"

\* where the loop stands once the except handler is through: the handler
\* sits inside `while True`, so the next input() follows
afterHandler == "input"

\* the tool calls of a model response: n calls with fresh ids, in order
modelCalls(first, n) == [i \in 1..n |-> [id |-> first + i - 1]]

\* ---- actions: input()

ReadEOF ==
    /\ UNCHANGED toolVars
    /\ pc = "input"
    /\ pc' = "done"
    /\ UNCHANGED <<messages, iteration, tool_calls, idx, warned, errored,
                   answered, turnBase, nInfer, turns, nextId, events>>
    /\ event' = "eof"
    /\ UNCHANGED aborted

ReadQuit ==
    /\ UNCHANGED toolVars
    /\ pc = "input"
    /\ \E inp \in UserInputs \ {EOF} : isQuit(strip(inp))
    /\ pc' = "done"
    /\ UNCHANGED <<messages, iteration, tool_calls, idx, warned, errored,
                   answered, turnBase, nInfer, turns, nextId, events>>
    /\ event' = "quit"
    /\ UNCHANGED aborted

ReadEmpty ==
    /\ UNCHANGED toolVars
    /\ pc = "input"
    /\ \E inp \in UserInputs \ {EOF} :
          /\ ~isQuit(strip(inp))
          /\ strip(inp) = ""
    /\ UNCHANGED <<messages, pc, iteration, tool_calls, idx, warned, errored,
                   answered, turnBase, nInfer, turns, nextId, events>>
    /\ event' = "empty"
    /\ UNCHANGED aborted

\* (variant) a loop that also reads input while a batch is being dispatched
ReadMessageAnytime ==
    /\ UNCHANGED toolVars
    /\ pc \in {"input", "call"}
    /\ turns > 0 => events < MaxEvents
    /\ \E inp \in UserInputs \ {EOF} :
          /\ ~isQuit(strip(inp))
          /\ strip(inp) # ""
          /\ messages' = Append(messages, userMessage(strip(inp)))
    /\ iteration' = 0
    /\ pc' = "loop"
    /\ warned' = FALSE
    /\ errored' = FALSE
    /\ answered' = FALSE
    /\ turnBase' = messages
    /\ nInfer' = 0
    /\ turns' = turns + 1
    /\ events' = IF turns > 0 THEN events + 1 ELSE events
    /\ UNCHANGED <<tool_calls, idx, nextId>>
    /\ event' = "message"
    /\ UNCHANGED aborted

\* (variant) a loop whose iteration counter is set once, before `while True`,
\* and carried from turn to turn
ReadMessageKeepsCount ==
    /\ UNCHANGED toolVars
    /\ pc = "input"
    /\ turns > 0 => events < MaxEvents
    /\ \E inp \in UserInputs \ {EOF} :
          /\ ~isQuit(strip(inp))
          /\ strip(inp) # ""
          /\ messages' = Append(messages, userMessage(strip(inp)))
    /\ iteration' = iteration
    /\ pc' = "loop"
    /\ warned' = FALSE
    /\ errored' = FALSE
    /\ answered' = FALSE
    /\ turnBase' = messages
    /\ nInfer' = 0
    /\ turns' = turns + 1
    /\ events' = IF turns > 0 THEN events + 1 ELSE events
    /\ UNCHANGED <<tool_calls, idx, nextId>>
    /\ event' = "message"
    /\ UNCHANGED aborted

\* a non-empty input that is no quit word: the user message is appended and
\* the turn starts
ReadMessage ==
    /\ UNCHANGED toolVars
    /\ pc = "input"
    /\ turns > 0 => events < MaxEvents
    /\ \E inp \in UserInputs \ {EOF} :
          /\ ~isQuit(strip(inp))
          /\ strip(inp) # ""
          /\ messages' = Append(messages, userMessage(strip(inp)))
    /\ iteration' = 0
    /\ pc' = "loop"
    /\ warned' = FALSE
    /\ errored' = FALSE
    /\ answered' = FALSE
    /\ turnBase' = messages
    /\ nInfer' = 0
    /\ turns' = turns + 1
    /\ events' = IF turns > 0 THEN events + 1 ELSE events
    /\ UNCHANGED <<tool_calls, idx, nextId>>
    /\ event' = "message"
    /\ UNCHANGED aborted

\* ---- actions: the while loop

\* the loop condition holds: count the cycle and send the request
StartCycle ==
    /\ UNCHANGED toolVars
    /\ pc = "loop"
    /\ whileCond(iteration)
    /\ iteration' = iteration + 1
    /\ nInfer' = nInfer + 1
    /\ pc' = "infer"
    /\ UNCHANGED <<messages, tool_calls, idx, warned, errored, answered,
                   turnBase, turns, nextId, events>>
    /\ UNCHANGED <<event, aborted>>

\* (variant) a function that returns after the while loop
LeaveLoopExits ==
    /\ UNCHANGED toolVars
    /\ pc = "loop"
    /\ ~whileCond(iteration)
    /\ warned' = ceilingReached(iteration)
    /\ pc' = "done"
    /\ UNCHANGED <<messages, iteration, tool_calls, idx, errored, answered,
                   turnBase, nInfer, turns, nextId, events>>
    /\ UNCHANGED <<event, aborted>>

\* (variant) a ceiling stop that discards what the turn appended
LeaveLoopDropsTurn ==
    /\ UNCHANGED toolVars
    /\ pc = "loop"
    /\ ~whileCond(iteration)
    /\ warned' = ceilingReached(iteration)
    /\ pc' = "input"
    /\ messages' = turnBase
    /\ UNCHANGED <<iteration, tool_calls, idx, errored, answered,
                   turnBase, nInfer, turns, nextId, events>>
    /\ UNCHANGED <<event, aborted>>

\* the loop condition fails: the code after the loop runs
LeaveLoop ==
    /\ UNCHANGED toolVars
    /\ pc = "loop"
    /\ ~whileCond(iteration)
    /\ warned' = ceilingReached(iteration)
    /\ pc' = "input"
    /\ UNCHANGED <<messages, iteration, tool_calls, idx, errored, answered,
                   turnBase, nInfer, turns, nextId, events>>
    /\ UNCHANGED <<event, aborted>>

\* (variant) a loop without the break: it goes on to the while condition
ModelAnswersContinues ==
    /\ UNCHANGED toolVars
    /\ pc = "infer"
    /\ iteration <= MaxAnswerCycle \/ iteration >= max_iterations
    /\ \E content \in FinalContents :
          messages' = Append(messages, assistantMessage(content, <<>>))
    /\ noToolCalls(<<>>)
    /\ tool_calls' = <<>>
    /\ answered' = TRUE
    /\ pc' = "loop"
    /\ UNCHANGED <<iteration, idx, warned, errored, turnBase, nInfer, turns,
                   nextId, events>>
    /\ event' = "answer"
    /\ UNCHANGED aborted

\* the response carries no tool calls: append it, break, run the code after
\* the loop
ModelAnswers ==
    /\ UNCHANGED toolVars
    /\ pc = "infer"
    /\ iteration <= MaxAnswerCycle \/ iteration >= max_iterations
    /\ \E content \in FinalContents :
          messages' = Append(messages, assistantMessage(content, <<>>))
    /\ noToolCalls(<<>>)
    /\ tool_calls' = <<>>
    /\ answered' = TRUE
    /\ warned' = ceilingReached(iteration)
    /\ pc' = "input"
    /\ UNCHANGED <<iteration, idx, errored, turnBase, nInfer, turns, nextId, events>>
    /\ event' = "answer"
    /\ UNCHANGED aborted

\* (variant) a loop that enters the for loop without recording the response
ModelCallsUnrecorded ==
    /\ UNCHANGED toolVars
    /\ pc = "infer"
    /\ \E n \in 1..MaxBatch :
          /\ events + (n - 1) <= MaxEvents
          /\ LET calls == modelCalls(nextId, n) IN
                /\ ~noToolCalls(calls)
                /\ tool_calls' = calls
          /\ nextId' = nextId + n
          /\ events' = events + (n - 1)
    /\ idx' = 1
    /\ pc' = "call"
    /\ UNCHANGED <<messages, iteration, warned, errored, answered, turnBase,
                   nInfer, turns>>
    /\ event' = "calls"
    /\ UNCHANGED aborted

\* the response carries n tool calls: append it and enter the for loop
ModelCalls ==
    /\ UNCHANGED toolVars
    /\ pc = "infer"
    /\ \E n \in 1..MaxBatch :
          /\ events + (n - 1) <= MaxEvents
          /\ LET calls == modelCalls(nextId, n) IN
                /\ ~noToolCalls(calls)
                /\ messages' = Append(messages, assistantMessage(None, calls))
                /\ tool_calls' = calls
          /\ nextId' = nextId + n
          /\ events' = events + (n - 1)
    /\ idx' = 1
    /\ pc' = "call"
    /\ UNCHANGED <<iteration, warned, errored, answered, turnBase, nInfer,
                   turns>>
    /\ event' = "calls"
    /\ UNCHANGED aborted

\* client.chat.completions.create raises
ModelRaises ==
    /\ UNCHANGED toolVars
    /\ pc = "infer"
    /\ events < MaxEvents
    /\ messages' = exceptHandler(messages)
    /\ errored' = TRUE
    /\ pc' = afterHandler
    /\ events' = events + 1
    /\ UNCHANGED <<iteration, tool_calls, idx, warned, answered, turnBase,
                   nInfer, turns, nextId>>
    /\ event' = "model_raises"
    /\ aborted' = aborted + 1

\* ---- actions: the for loop over the batch

\* (variant) a for loop that stops one call short of the end of the batch
BatchDoneEarly ==
    /\ UNCHANGED toolVars
    /\ pc = "call"
    /\ idx >= Len(tool_calls)
    /\ pc' = "loop"
    /\ UNCHANGED <<messages, iteration, tool_calls, idx, warned, errored,
                   answered, turnBase, nInfer, turns, nextId, events>>
    /\ UNCHANGED <<event, aborted>>

\* the for loop is exhausted: back to the while condition
BatchDone ==
    /\ UNCHANGED toolVars
    /\ pc = "call"
    /\ idx > Len(tool_calls)
    /\ pc' = "loop"
    /\ UNCHANGED <<messages, iteration, tool_calls, idx, warned, errored,
                   answered, turnBase, nInfer, turns, nextId, events>>
    /\ UNCHANGED <<event, aborted>>

\* json.loads accepts the arguments: session.call_tool is sent
Dispatch ==
    /\ UNCHANGED toolVars
    /\ pc = "call"
    /\ idx <= Len(tool_calls)
    /\ pc' = "tool"
    /\ UNCHANGED <<messages, iteration, tool_calls, idx, warned, errored,
                   answered, turnBase, nInfer, turns, nextId, events>>
    /\ UNCHANGED <<event, aborted>>

\* json.loads raises on the arguments of the call
ArgsInvalid ==
    /\ UNCHANGED toolVars
    /\ pc = "call"
    /\ idx <= Len(tool_calls)
    /\ events < MaxEvents
    /\ messages' = exceptHandler(messages)
    /\ errored' = TRUE
    /\ pc' = afterHandler
    /\ events' = events + 1
    /\ UNCHANGED <<iteration, tool_calls, idx, warned, answered, turnBase,
                   nInfer, turns, nextId>>
    /\ event' = "bad_arguments"
    /\ aborted' = aborted + 1

\* (variant) a loop that leaves the batch when a result reports an error
ToolReturnsLeavesOnError ==
    /\ UNCHANGED toolVars
    /\ pc = "tool"
    /\ \E text \in ToolTexts :
          /\ text = ErrText => events < MaxEvents
          /\ messages' = Append(messages,
                                toolMessage(currentCall(tool_calls, idx), text))
          /\ events' = IF text = ErrText THEN events + 1 ELSE events
          /\ event' = IF text = ErrText THEN "tool_error" ELSE "tool_ok"
          /\ idx' = IF text = ErrText THEN Len(tool_calls) + 1 ELSE idx + 1
    /\ pc' = "call"
    /\ UNCHANGED <<iteration, tool_calls, warned, errored, answered, turnBase,
                   nInfer, turns, nextId>>
    /\ UNCHANGED aborted

\* session.call_tool returns: its text is appended under the call's id
ToolReturns ==
    /\ UNCHANGED toolVars
    /\ pc = "tool"
    /\ \E text \in ToolTexts :
          /\ text = ErrText => events < MaxEvents
          /\ messages' = Append(messages,
                                toolMessage(currentCall(tool_calls, idx), text))
          /\ events' = IF text = ErrText THEN events + 1 ELSE events
          /\ event' = IF text = ErrText THEN "tool_error" ELSE "tool_ok"
    /\ idx' = idx + 1
    /\ pc' = "call"
    /\ UNCHANGED <<iteration, tool_calls, warned, errored, answered, turnBase,
                   nInfer, turns, nextId>>
    /\ UNCHANGED aborted

\* session.call_tool raises (transport error)
ToolRaises ==
    /\ UNCHANGED toolVars
    /\ pc = "tool"
    /\ events < MaxEvents
    /\ messages' = exceptHandler(messages)
    /\ errored' = TRUE
    /\ pc' = afterHandler
    /\ events' = events + 1
    /\ UNCHANGED <<iteration, tool_calls, idx, warned, answered, turnBase,
                   nInfer, turns, nextId>>
    /\ event' = "tool_raises"
    /\ aborted' = aborted + 1

\* ======================================================== the tool server
\* Strings of a payload are sequences of one-character strings, so that the
\* validators can look at their characters.  A numeric field holds an integer
\* (the float the payload carries; temperatures count hundredths of a degree).

Strings(chars) == UNION {[1..n -> chars] : n \in 0..MaxStrLen}

\* a field the payload does not carry
Missing == "<missing>"
Absent == [given |-> FALSE, chars |-> <<>>]
Text(cs) == [given |-> TRUE, chars |-> cs]
NoNumber == [kind |-> "missing", num |-> 0]
\* a value pydantic cannot parse as a float, such as "abc"
NotANumber == [kind |-> "text", num |-> 0]
Number(n) == [kind |-> "num", num |-> n]

NoArgs ==
    [operation |-> Missing, a |-> NoNumber, b |-> NoNumber, city |-> Absent,
     title |-> Absent, content |-> Absent, tags |-> <<>>,
     temperature_fahrenheit |-> NoNumber, filename |-> Absent,
     format |-> Missing]

\* ---- the payloads the requests are drawn from
Operations == {"add", "subtract", "multiply", "divide"}
OperationValues == Operations \cup {Missing, "power"}
Operands == (0 - MaxOperand)..MaxOperand
NumberValues == {NoNumber, NotANumber} \cup {Number(n) : n \in Operands}
Formats == {"iso", "human", "unix"}
FormatValues == Formats \cup {Missing, "rfc"}
absolute_zero_f == -45967
TemperatureValues ==
    {NoNumber, NotANumber} \cup
    {Number(n) : n \in {absolute_zero_f - 1, absolute_zero_f,
                        absolute_zero_f + 1, 3200, 21200}}
TitleValues == {Absent} \cup {Text(t) : t \in Strings({"a", " ", "!"})}
ContentValues == {Absent, Text(<<>>), Text(<<"x">>)}
TagValues == {<<>>, <<"t">>}
CityValues == {Absent} \cup {Text(t) : t \in Strings({"a", " "})}
FilenameValues == {Absent} \cup {Text(t) : t \in Strings({"a", ".", "/"})}
\* values of datetime.now()
Times == {1, 2}

CalculatePayloads ==
    {[NoArgs EXCEPT !.operation = o, !.a = x, !.b = y] :
        o \in OperationValues, x \in NumberValues, y \in NumberValues}
WeatherPayloads == {[NoArgs EXCEPT !.city = c] : c \in CityValues}
NotePayloads ==
    {[NoArgs EXCEPT !.title = t, !.content = c, !.tags = g] :
        t \in TitleValues, c \in ContentValues, g \in TagValues}
TemperaturePayloads ==
    {[NoArgs EXCEPT !.temperature_fahrenheit = f] : f \in TemperatureValues}
FilePayloads == {[NoArgs EXCEPT !.filename = f] : f \in FilenameValues}
TimePayloads == {[NoArgs EXCEPT !.format = f] : f \in FormatValues}

\* the keys of TOOL_HANDLERS
ToolNames == {"calculate", "get_weather", "save_note", "convert_temperature",
              "read_file", "get_time"}
\* names a request can carry that are no key of TOOL_HANDLERS
UnknownNames == {"delete_file", "Calculate"}

PayloadsOf(name) ==
    CASE name = "calculate" -> CalculatePayloads
      [] name = "get_weather" -> WeatherPayloads
      [] name = "save_note" -> NotePayloads
      [] name = "convert_temperature" -> TemperaturePayloads
      [] name = "read_file" -> FilePayloads
      [] name = "get_time" -> TimePayloads
      [] OTHER -> {NoArgs, [NoArgs EXCEPT !.filename = Text(<<"a">>)],
                   [NoArgs EXCEPT !.title = Text(<<"a">>),
                                  !.content = Text(<<"x">>)]}

Requests ==
    UNION {{[name |-> n, arguments |-> p] : p \in PayloadsOf(n)} :
              n \in ToolNames \cup UnknownNames}

\* ---- exceptions and output models
\* An exception is its type name and its message; a message is a text, the
\* name it quotes and, for a pydantic ValidationError, the errors it lists.
Message3(text, subject, errors) ==
    [text |-> text, subject |-> subject, errors |-> errors]
Exception(type, message) == [type |-> type, message |-> message]
NoException == Exception("none", Message3("", <<>>, <<>>))

\* ErrorOutput(error_type=..., error_message=...); success defaults to False
ErrorOutput(error_type, error_message) ==
    [model |-> "ErrorOutput", success |-> FALSE, error_type |-> error_type,
     error_message |-> error_message]

\* `except Exception as e: ErrorOutput(type(e).__name__, str(e))`
errorOf(e) == ErrorOutput(e.type, e.message)

ValidationError(errors) ==
    Exception("ValidationError", Message3("validation errors", <<>>, errors))

\* ---- rational numbers: the results of float arithmetic on small integers
RECURSIVE gcd(_, _)
gcd(x, y) == IF y = 0 THEN x ELSE gcd(y, x % y)
abs(x) == IF x < 0 THEN 0 - x ELSE x
\* the fraction n/d in lowest terms with a positive denominator (d # 0)
Rat(n, d) ==
    LET g == gcd(abs(n), abs(d))
        sgn == IF d < 0 THEN 0 - 1 ELSE 1
    IN [num |-> sgn * (n \div g), den |-> sgn * (d \div g)]

\* ---- input models (local_models.py)
\* a required float field: the errors pydantic reports for it
floatErrors(field, v) ==
    CASE v.kind = "missing" -> <<field \o ": Field required">>
      [] v.kind = "text" -> <<field \o ": Input should be a valid number">>
      [] OTHER -> <<>>

\* a required str field with min_length
minLengthErrors(field, v, min_length) ==
    CASE ~v.given -> <<field \o ": Field required">>
      [] Len(v.chars) < min_length -> <<field \o ": String too short">>
      [] OTHER -> <<>>

\* a required str field with min_length and max_length
strErrors(field, v, min_length, max_length) ==
    CASE ~v.given -> <<field \o ": Field required">>
      [] Len(v.chars) < min_length -> <<field \o ": String too short">>
      [] Len(v.chars) > max_length -> <<field \o ": String too long">>
      [] OTHER -> <<>>

\* a str field with a pattern of alternatives; `required` is FALSE for a field
\* with a default
patternErrors(field, v, allowed, required) ==
    CASE v = Missing -> IF required THEN <<field \o ": Field required">> ELSE <<>>
      [] v \notin allowed -> <<field \o ": String should match pattern">>
      [] OTHER -> <<>>

\* (variant) a validator that rejects b = 0 whatever the operation
validate_divisionAnyOperation(operationValid, operation, b) ==
    IF b = 0
    THEN <<"b: Value error, Cannot divide by zero">>
    ELSE <<>>

\* CalculateInput.validate_division: runs on b once b parsed as a float;
\* info.data holds operation only if operation itself validated
validate_division(operationValid, operation, b) ==
    IF operationValid /\ operation = "divide" /\ b = 0
    THEN <<"b: Value error, Cannot divide by zero">>
    ELSE <<>>

CalculateInput(arguments) ==
    LET opErrors == patternErrors("operation", arguments.operation, Operations, TRUE)
        aErrors == floatErrors("a", arguments.a)
        bParse == floatErrors("b", arguments.b)
        bErrors == IF bParse # <<>> THEN bParse
                   ELSE validate_division(opErrors = <<>>, arguments.operation,
                                          arguments.b.num)
    IN [errors |-> opErrors \o aErrors \o bErrors,
        operation |-> arguments.operation,
        a |-> arguments.a.num,
        b |-> arguments.b.num]

\* str.strip() on a sequence of characters
RECURSIVE lstrip(_)
lstrip(cs) == IF cs # <<>> /\ Head(cs) = " " THEN lstrip(Tail(cs)) ELSE cs
RECURSIVE rstrip(_)
rstrip(cs) == IF cs # <<>> /\ Last(cs) = " " THEN rstrip(Front(cs)) ELSE cs
stripChars(cs) == rstrip(lstrip(cs))

city_max_length == 100
title_max_length == 100

WeatherInput(arguments) ==
    [errors |-> strErrors("city", arguments.city, 1, city_max_length),
     city |-> stripChars(arguments.city.chars)]

\* the characters sanitize_title keeps, among those of the payloads
safe_chars == {"a", " "}

\* NoteInput.sanitize_title, run once the length constraints hold
sanitize_title(v) == stripChars(SelectSeq(v, LAMBDA c : c \in safe_chars))

NoteInput(arguments) ==
    LET lenErrors == strErrors("title", arguments.title, 1, title_max_length)
        sanitized == sanitize_title(arguments.title.chars)
        titleErrors ==
            IF lenErrors # <<>> THEN lenErrors
            ELSE IF sanitized = <<>>
                 THEN <<"title: Value error, Title must contain at least one alphanumeric character">>
                 ELSE <<>>
        contentErrors == minLengthErrors("content", arguments.content, 1)
    IN [errors |-> titleErrors \o contentErrors,
        title |-> sanitized,
        content |-> arguments.content.chars,
        tags |-> arguments.tags]

\* TemperatureInput.validate_temperature
validate_temperature(v) ==
    IF v < absolute_zero_f
    THEN <<"temperature_fahrenheit: Value error, Temperature cannot be below absolute zero">>
    ELSE <<>>

TemperatureInput(arguments) ==
    LET parse == floatErrors("temperature_fahrenheit", arguments.temperature_fahrenheit)
    IN [errors |-> IF parse # <<>> THEN parse
                   ELSE validate_temperature(arguments.temperature_fahrenheit.num),
        temperature_fahrenheit |-> arguments.temperature_fahrenheit.num]

\* the components of a POSIX path: split at "/", "" and "." dropped
RECURSIVE pathParts(_, _)
pathParts(cs, cur) ==
    LET done == IF cur = <<>> \/ cur = <<".">> THEN <<>> ELSE <<cur>> IN
    IF cs = <<>> THEN done
    ELSE IF Head(cs) = "/" THEN done \o pathParts(Tail(cs), <<>>)
    ELSE pathParts(Tail(cs), Append(cur, Head(cs)))

\* Path(v).name: the last component, "" when there is none
pathName(v) ==
    LET parts == pathParts(v, <<>>) IN
    IF parts = <<>> THEN <<>> ELSE Last(parts)

\* (variant) a validator that only asks for a last component
validate_filenameNameOnly(v) ==
    IF pathName(v) = <<>>
    THEN <<"filename: Value error, Invalid filename - path traversal not allowed">>
    ELSE <<>>

\* FileReadInput.validate_filename
validate_filename(v) ==
    LET safe_filename == pathName(v) IN
    IF safe_filename = <<>> \/ safe_filename # v
    THEN <<"filename: Value error, Invalid filename - path traversal not allowed">>
    ELSE <<>>

FileReadInput(arguments) ==
    LET lenErrors == minLengthErrors("filename", arguments.filename, 1)
    IN [errors |-> IF lenErrors # <<>> THEN lenErrors
                   ELSE validate_filename(arguments.filename.chars),
        filename |-> arguments.filename.chars]

TimeInput(arguments) ==
    [errors |-> patternErrors("format", arguments.format, Formats, FALSE),
     format |-> IF arguments.format = Missing THEN "iso" ELSE arguments.format]

\* ---- the file system the handlers see
\* a regular file: its name and what it holds (a note holds its title, its
\* creation time, its tags and its content; any other file only a body)
FileContent(title, created, tags, body) ==
    [title |-> title, created |-> created, tags |-> tags, body |-> body]
File(name, content) == [name |-> name, content |-> content]
\* names open() finds to be directories
Directories == {<<".", ".">>}
exists(files, name) == \E f \in files : f.name = name
contentOf(files, name) == (CHOOSE f \in files : f.name = name).content
\* open(name, 'w') followed by the writes: the file is created or replaced
written(files, name, content) ==
    {f \in files : f.name # name} \cup {File(name, content)}
\* len(content.splitlines()) of a file
lineCount(c) ==
    IF c.title = <<>> THEN Len(c.body)
    ELSE 2 + (IF c.tags # <<>> THEN 1 ELSE 0) + 1 + 1
\* the working directory the server starts in: one readable file, "a"
InitialFiles == {File(<<"a">>, FileContent(<<>>, 0, <<>>, <<"x">>))}

\* what running a handler body gives: the exception it raised or the output
\* model it built, the files afterwards, and the open() calls it made
Raised(e, files, opened) ==
    [exc |-> e, out |-> [model |-> "none"], fs |-> files, opens |-> opened]
Returned(output, files, opened) ==
    [exc |-> NoException, out |-> output, fs |-> files, opens |-> opened]
Opened(name, mode) == [name |-> name, mode |-> mode]

\* ---- tool implementations (local_tools.py)
\* (variant) the table with the operands of subtract swapped
operationsSwapped(operation, x, y) ==
    CASE operation = "add" -> Rat(x + y, 1)
      [] operation = "subtract" -> Rat(y - x, 1)
      [] operation = "multiply" -> Rat(x * y, 1)
      [] operation = "divide" -> Rat(x, y)

\* the operations table of calculate, on floats with integral values
operations(operation, x, y) ==
    CASE operation = "add" -> Rat(x + y, 1)
      [] operation = "subtract" -> Rat(x - y, 1)
      [] operation = "multiply" -> Rat(x * y, 1)
      [] operation = "divide" -> Rat(x, y)

\* the try block of calculate
calculateBody(arguments, files, now) ==
    LET input_data == CalculateInput(arguments) IN
    IF input_data.errors # <<>>
    THEN Raised(ValidationError(input_data.errors), files, <<>>)
    ELSE LET result == operations(input_data.operation, input_data.a, input_data.b)
         IN Returned([model |-> "CalculateOutput",
                      operation |-> input_data.operation,
                      operand_a |-> input_data.a,
                      operand_b |-> input_data.b,
                      result |-> result,
                      formatted |-> <<input_data.a, input_data.operation,
                                      input_data.b, result>>,
                      timestamp |-> now],
                     files, <<>>)

\* try/except of a handler whose only except clause is `except Exception`
catchAll(r) ==
    IF r.exc # NoException THEN [r EXCEPT !.out = errorOf(r.exc)] ELSE r

calculate(arguments, files, now) == catchAll(calculateBody(arguments, files, now))

get_weatherBody(arguments, files, now) ==
    LET input_data == WeatherInput(arguments) IN
    IF input_data.errors # <<>>
    THEN Raised(ValidationError(input_data.errors), files, <<>>)
    ELSE Returned([model |-> "WeatherOutput", city |-> input_data.city,
                   temperature |-> "72F", condition |-> "Sunny",
                   timestamp |-> now],
                  files, <<>>)

get_weather(arguments, files, now) == catchAll(get_weatherBody(arguments, files, now))

\* title.replace(' ', '_')
underscored(cs) == [i \in 1..Len(cs) |-> IF cs[i] = " " THEN "_" ELSE cs[i]]

\* f"note_{title.replace(' ', '_')}.txt"
noteFilename(title) == <<"note_">> \o underscored(title) \o <<".txt">>

\* the try block of save_note: validate, then open(filename, 'w') and write
save_noteBody(arguments, files, now) ==
    LET input_data == NoteInput(arguments) IN
    IF input_data.errors # <<>>
    THEN Raised(ValidationError(input_data.errors), files, <<>>)
    ELSE LET filename == noteFilename(input_data.title)
             content == FileContent(input_data.title, now, input_data.tags,
                                    input_data.content)
         IN Returned([model |-> "NoteOutput", filename |-> filename,
                      title |-> input_data.title,
                      content_length |-> Len(input_data.content),
                      tags |-> input_data.tags, created_at |-> now,
                      success |-> TRUE],
                     written(files, filename, content),
                     <<Opened(filename, "w")>>)

save_note(arguments, files, now) == catchAll(save_noteBody(arguments, files, now))

\* celsius = (f - 32) * 5.0 / 9.0 in hundredths, rounded to the nearest
toCelsius(f) ==
    LET n == (f - 3200) * 5
        q == (2 * abs(n) + 9) \div 18
    IN IF n < 0 THEN 0 - q ELSE q

convert_temperatureBody(arguments, files, now) ==
    LET input_data == TemperatureInput(arguments) IN
    IF input_data.errors # <<>>
    THEN Raised(ValidationError(input_data.errors), files, <<>>)
    ELSE Returned([model |-> "TemperatureOutput",
                   fahrenheit |-> input_data.temperature_fahrenheit,
                   celsius |-> toCelsius(input_data.temperature_fahrenheit),
                   timestamp |-> now],
                  files, <<>>)

convert_temperature(arguments, files, now) ==
    catchAll(convert_temperatureBody(arguments, files, now))

\* open(name, 'r') and read(): the exception open raises, if any
openForRead(files, name) ==
    CASE name \in Directories ->
            Exception("IsADirectoryError",
                      Message3("[Errno 21] Is a directory: ", name, <<>>))
      [] ~exists(files, name) ->
            Exception("FileNotFoundError",
                      Message3("[Errno 2] No such file or directory: ", name, <<>>))
      [] OTHER -> NoException

\* the try block of read_file: validate, then open(filename, 'r') and read
read_fileBody(arguments, files, now) ==
    LET input_data == FileReadInput(arguments) IN
    IF input_data.errors # <<>>
    THEN Raised(ValidationError(input_data.errors), files, <<>>)
    ELSE LET e == openForRead(files, input_data.filename)
             opened == <<Opened(input_data.filename, "r")>>
         IN IF e # NoException THEN Raised(e, files, opened)
            ELSE LET content == contentOf(files, input_data.filename)
                 IN Returned([model |-> "FileReadOutput",
                              filename |-> input_data.filename,
                              content |-> content,
                              lines |-> lineCount(content),
                              success |-> TRUE],
                             files, opened)

\* (variant) read_file with the single except clause of the other handlers
read_fileExceptVerbatim(r, arguments) ==
    IF r.exc # NoException THEN [r EXCEPT !.out = errorOf(r.exc)] ELSE r

\* read_file's except clauses: FileNotFoundError first, with a message of its
\* own built from arguments.get('filename'), then any other exception
read_fileExcept(r, arguments) ==
    IF r.exc = NoException THEN r
    ELSE IF r.exc.type = "FileNotFoundError"
         THEN [r EXCEPT !.out = ErrorOutput("FileNotFoundError",
                                    Message3("File '{filename}' not found",
                                             arguments.filename.chars, <<>>))]
         ELSE [r EXCEPT !.out = errorOf(r.exc)]

read_file(arguments, files, now) ==
    read_fileExcept(read_fileBody(arguments, files, now), arguments)

get_timeBody(arguments, files, now) ==
    LET input_data == TimeInput(arguments) IN
    IF input_data.errors # <<>>
    THEN Raised(ValidationError(input_data.errors), files, <<>>)
    ELSE Returned([model |-> "TimeOutput", timestamp |-> now,
                   formatted |-> <<input_data.format, now>>,
                   format_type |-> input_data.format],
                  files, <<>>)

get_time(arguments, files, now) == catchAll(get_timeBody(arguments, files, now))

\* TOOL_HANDLERS[name](arguments)
TOOL_HANDLERS(name, arguments, files, now) ==
    CASE name = "calculate" -> calculate(arguments, files, now)
      [] name = "get_weather" -> get_weather(arguments, files, now)
      [] name = "save_note" -> save_note(arguments, files, now)
      [] name = "convert_temperature" -> convert_temperature(arguments, files, now)
      [] name = "read_file" -> read_file(arguments, files, now)
      [] name = "get_time" -> get_time(arguments, files, now)

\* `if name in TOOL_HANDLERS`
isRegistered(name) == name \in ToolNames

\* (variant) a lookup that ignores the case of the name
call_toolFolded(name, arguments, files, now) ==
    LET folded == IF name = "Calculate" THEN "calculate" ELSE name IN
    IF isRegistered(folded)
    THEN [res |-> TOOL_HANDLERS(folded, arguments, files, now), ran |-> folded]
    ELSE [res |-> Returned(ErrorOutput("UnknownToolError",
                                       Message3("Unknown tool: ", <<name>>, <<>>)),
                           files, <<>>),
          ran |-> "none"]

\* the try block of the handler registered under name
tryBlock(name, arguments, files, now) ==
    CASE name = "calculate" -> calculateBody(arguments, files, now)
      [] name = "get_weather" -> get_weatherBody(arguments, files, now)
      [] name = "save_note" -> save_noteBody(arguments, files, now)
      [] name = "convert_temperature" -> convert_temperatureBody(arguments, files, now)
      [] name = "read_file" -> read_fileBody(arguments, files, now)
      [] name = "get_time" -> get_timeBody(arguments, files, now)

\* call_tool: the result of the handler, or the UnknownToolError output;
\* `ran` is the handler that was run
call_tool(name, arguments, files, now) ==
    IF isRegistered(name)
    THEN [res |-> TOOL_HANDLERS(name, arguments, files, now), ran |-> name]
    ELSE [res |-> Returned(ErrorOutput("UnknownToolError",
                                       Message3("Unknown tool: ", <<name>>, <<>>)),
                           files, <<>>),
          ran |-> "none"]

NoRequest == [name |-> "none", arguments |-> NoArgs]
NoReply == [model |-> "none"]

\* the server before its first request
ToolsIdle ==
    /\ request = NoRequest
    /\ reply = NoReply
    /\ handler = "none"
    /\ opens = <<>>

InitTools ==
    /\ fs = InitialFiles
    /\ ToolsIdle

\* one call_tool request arrives and is served
CallTool ==
    /\ UNCHANGED loopVars
    /\ request = NoRequest
    /\ \E r \in Requests, now \in Times :
          LET c == call_tool(r.name, r.arguments, fs, now) IN
             /\ request' = r
             /\ reply' = c.res.out
             /\ fs' = c.res.fs
             /\ opens' = c.res.opens
             /\ handler' = c.ran

\* the reply is sent; the server waits for the next request
Respond ==
    /\ UNCHANGED loopVars
    /\ request # NoRequest
    /\ request' = NoRequest
    /\ reply' = NoReply
    /\ handler' = "none"
    /\ opens' = <<>>
    /\ UNCHANGED fs

\* ========================================================= specifications
Init == InitLoop /\ InitTools

\* the chat loop; the server's variables stay as they start

Next ==
    \/ ReadEOF
    \/ ReadQuit
    \/ ReadEmpty
    \/ ReadMessage
    \/ StartCycle
    \/ LeaveLoop
    \/ ModelAnswers
    \/ ModelCalls
    \/ ModelRaises
    \/ BatchDone
    \/ Dispatch
    \/ ArgsInvalid
    \/ ToolReturns
    \/ ToolRaises

Spec == Init /\ [][Next]_vars

\* the steps of a turn: the statements between two calls of input()
TurnStep ==
    \/ StartCycle
    \/ LeaveLoop
    \/ ModelAnswers
    \/ ModelCalls
    \/ ModelRaises
    \/ BatchDone
    \/ Dispatch
    \/ ArgsInvalid
    \/ ToolReturns
    \/ ToolRaises

\* the chat loop when every awaited call eventually returns or raises and
\* the interpreter keeps running the statements of the turn; nothing is
\* assumed about the user, who may never type again
SpecLive == Init /\ [][Next]_vars /\ WF_vars(TurnStep)

\* the tool server; the loop's variables stay as they start
NextTools ==
    \/ CallTool
    \/ Respond

SpecTools == Init /\ [][NextTools]_vars

\* ================================================================= claims
IsPrefix(p, q) == Len(p) <= Len(q) /\ SubSeq(q, 1, Len(p)) = p

\* a turn has ended and the loop waits for the next input
AwaitingUserInput == pc = "input"
\* the turn that just ended was stopped: by the ceiling warning or by the
\* except handler
TurnAborted == AwaitingUserInput /\ turns > 0 /\ (warned \/ errored)

\* C1: within one user turn the number of model-inference requests never
\* exceeds max_iterations, whatever the model answers.
C1_InferencesBounded == nInfer <= max_iterations

\* C1 witness: the model asked for tool calls on every response of the turn
\* and the max_iterations-th batch has been dispatched
C1_Witness ==
    /\ pc = "loop"
    /\ nInfer = max_iterations
    /\ event = "tool_ok"

\* C2: when the batch of the last allowed cycle (iteration = max_iterations)
\* has been dispatched, the turn stops with the maximum-iterations warning and
\* the loop awaits user input; from the moment the last cycle's request is
\* sent no further inference is issued in the turn.
C2_CeilingStops ==
    [][/\ (iteration = max_iterations /\ pc \notin {"input", "done"})
             => (nInfer' = nInfer /\ pc' # "infer")
       /\ (iteration = max_iterations /\ pc = "loop")
             => (/\ pc' = "input"
                 /\ warned'
                 /\ ~answered'
                 /\ ~errored'
                 /\ messages' = messages)]_vars

\* C2 witness: a turn stopped at the ceiling while the model still asked for
\* tools
C2_Witness ==
    /\ TurnAborted
    /\ warned
    /\ ~answered
    /\ ~errored
    /\ iteration = max_iterations
    /\ Last(messages).role = "tool"

\* C3: while a batch is dispatched, and once it is fully dispatched, the
\* tool-role messages appended for it follow its assistant message in the
\* order of the calls of the response, the i-th carrying the id of the i-th
\* call.
C3_BatchOrder ==
    (pc \in {"call", "tool"} \/ (pc = "loop" /\ iteration > 0)) =>
        LET answeredCalls == idx - 1
            base == Len(messages) - answeredCalls
        IN /\ pc = "loop" => answeredCalls = Len(tool_calls)
           /\ base >= 1
           /\ messages[base].role = "assistant"
           /\ messages[base].tool_calls = tool_calls
           /\ \A i \in 1..answeredCalls :
                 /\ messages[base + i].role = "tool"
                 /\ messages[base + i].tool_call_id = tool_calls[i].id
           /\ \A i, j \in 1..Len(tool_calls) :
                 i # j => tool_calls[i].id # tool_calls[j].id

\* C3 witness: a batch of two or more calls is fully dispatched
C3_Witness ==
    /\ pc = "loop"
    /\ iteration > 0
    /\ Len(tool_calls) >= 2
    /\ idx = Len(tool_calls) + 1

\* C4 (as claimed): after a turn is aborted by an exception of the inference
\* call or of the tool-host call, the conversation equals the conversation
\* before the turn's user message was appended.
C4_RollbackLaw ==
    (AwaitingUserInput /\ errored /\ event \in {"model_raises", "tool_raises"})
        => messages = turnBase

\* C5: the except handler removes at most one message, and only the user
\* message of the aborted turn; the conversation as it was before the turn
\* is still there, unchanged and in place.
C5_AbortFrame ==
    [][aborted' # aborted =>
          /\ IsPrefix(turnBase, messages')
          /\ IsPrefix(messages', messages)
          /\ Len(messages') >= Len(messages) - 1
          /\ messages' # messages =>
                /\ Last(messages).role = "user"
                /\ Len(messages) = Len(turnBase) + 1
                /\ messages' = turnBase]_vars

\* C5 witness: a turn that follows a completed turn was aborted and its user
\* message removed
C5_Witness ==
    /\ AwaitingUserInput
    /\ errored
    /\ turns >= 2
    /\ Len(turnBase) >= 3
    /\ messages = turnBase

\* a call_tool request has just been served
Served == request # NoRequest
\* the step that serves a request
Serving == request = NoRequest /\ request' # NoRequest
IsErrorResult(r) == r.model = "ErrorOutput" /\ r.success = FALSE
Has(cs, c) == \E i \in 1..Len(cs) : cs[i] = c

\* C6: for a tool name that is no key of TOOL_HANDLERS, call_tool returns an
\* ErrorOutput with success = false and error_type UnknownToolError naming
\* the tool; no handler runs, no file is opened or written.
C6_UnknownTool ==
    [][(Serving /\ request'.name \notin ToolNames) =>
          /\ IsErrorResult(reply')
          /\ reply'.error_type = "UnknownToolError"
          /\ reply'.error_message.subject = <<request'.name>>
          /\ handler' = "none"
          /\ opens' = <<>>
          /\ fs' = fs]_vars

\* C6 witness: an unknown tool was called with a payload that save_note
\* would accept, and the answer is the UnknownToolError output
C6_Witness ==
    /\ Served
    /\ request.name \in UnknownNames
    /\ request.arguments.title = Text(<<"a">>)
    /\ request.arguments.content = Text(<<"x">>)
    /\ IsErrorResult(reply)
    /\ reply.error_type = "UnknownToolError"
    /\ handler = "none"

\* the input constraints of the tools, as the claim lists them: a required
\* field is missing, operation or format is outside the allowed set, divide
\* with b = 0, a temperature below -459.67, a filename with a path separator,
\* a title that is empty or holds no character sanitize_title keeps but space
RequiredMissing(name, p) ==
    CASE name = "calculate" ->
            p.operation = Missing \/ p.a.kind = "missing" \/ p.b.kind = "missing"
      [] name = "get_weather" -> ~p.city.given
      [] name = "save_note" -> ~p.title.given \/ ~p.content.given
      [] name = "convert_temperature" -> p.temperature_fahrenheit.kind = "missing"
      [] name = "read_file" -> ~p.filename.given
      [] OTHER -> FALSE
ViolatesConstraint(r) ==
    LET p == r.arguments IN
    /\ r.name \in ToolNames
    /\ \/ RequiredMissing(r.name, p)
       \/ r.name = "calculate" /\ p.operation \notin Operations
       \/ r.name = "calculate" /\ p.operation = "divide" /\ p.b = Number(0)
       \/ r.name = "get_time" /\ p.format # Missing /\ p.format \notin Formats
       \/ /\ r.name = "convert_temperature"
          /\ p.temperature_fahrenheit.kind = "num"
          /\ p.temperature_fahrenheit.num < -45967
       \/ r.name = "read_file" /\ Has(p.filename.chars, "/")
       \/ r.name = "save_note" /\ ~Has(p.title.chars, "a")

\* C7: a payload that violates an input constraint of a registered tool gets
\* an error result, and nothing happens to the files: save_note writes none,
\* read_file opens none (open() is not reached). The filename "..", which
\* has no separator, gets an error result too and no file is read or
\* written for it.
C7_RejectedWithoutEffect ==
    [][/\ (Serving /\ ViolatesConstraint(request')) =>
             /\ IsErrorResult(reply')
             /\ opens' = <<>>
             /\ fs' = fs
       /\ (Serving /\ request'.name = "read_file"
                   /\ request'.arguments.filename = Text(<<".", ".">>)) =>
             /\ IsErrorResult(reply')
             /\ fs' = fs]_vars

\* C7 witness: save_note was called with a title sanitize_title empties and
\* a valid content; the answer is an error and no note exists
C7_Witness ==
    /\ Served
    /\ request.name = "save_note"
    /\ request.arguments.title = Text(<<"!">>)
    /\ request.arguments.content = Text(<<"x">>)
    /\ IsErrorResult(reply)
    /\ fs = InitialFiles

\* C8: a tool result that reports an error is appended as the tool message
\* of its call and the for loop moves on to the next call: the turn is not
\* aborted and no call is skipped; when the next inference is requested,
\* every call of the batch has its tool message in the conversation.
C8_ErrorResultKept ==
    /\ [][(pc = "tool" /\ event' = "tool_error") =>
             /\ messages' = Append(messages,
                    [role |-> "tool", content |-> ErrText, tool_calls |-> <<>>,
                     tool_call_id |-> tool_calls[idx].id])
             /\ pc' = "call"
             /\ idx' = idx + 1
             /\ tool_calls' = tool_calls
             /\ ~errored'
             /\ ~warned'
             /\ aborted' = aborted]_vars
    /\ []((pc = "infer" /\ iteration > 1) =>
             LET n == Len(tool_calls) IN
             /\ n >= 1
             /\ Len(messages) > n
             /\ messages[Len(messages) - n].tool_calls = tool_calls
             /\ \A i \in 1..n :
                   /\ messages[Len(messages) - n + i].role = "tool"
                   /\ messages[Len(messages) - n + i].tool_call_id = tool_calls[i].id)

\* C8 witness: the first call of a batch of two got an error result, the
\* second a successful one, and the next inference is requested with both in
\* the conversation
C8_Witness ==
    /\ pc = "infer"
    /\ iteration > 1
    /\ Len(tool_calls) = 2
    /\ messages[Len(messages) - 1].role = "tool"
    /\ messages[Len(messages) - 1].content = ErrText
    /\ messages[Len(messages)].role = "tool"
    /\ messages[Len(messages)].content = OkText

\* C9: an exception raised while a turn is processed does not end the
\* session: the loop is back at input(), a non-empty message is accepted
\* there, and it leads to a new inference request.
C9_SessionSurvives ==
    /\ [][aborted' # aborted => (pc' = "input" /\ errored')]_vars
    /\ []((aborted > 0 /\ pc = "input" /\ events < MaxEvents) => ENABLED ReadMessage)
    /\ [][(aborted > 0 /\ pc = "input" /\ event' = "message") =>
             /\ pc' = "loop"
             /\ iteration' = 0
             /\ messages' = Append(messages, Last(messages'))
             /\ Last(messages').role = "user"]_vars
    /\ [][(pc = "loop" /\ iteration = 0) => (pc' = "infer" /\ nInfer' = 1)]_vars

\* C9 witness: after an aborted turn a new turn has reached its first
\* inference request
C9_Witness ==
    /\ aborted > 0
    /\ ~errored
    /\ pc = "infer"
    /\ nInfer = 1

\* the payloads calculate accepts
ValidCalculate(p) ==
    /\ p.operation \in Operations
    /\ p.a.kind = "num"
    /\ p.b.kind = "num"
    /\ ~(p.operation = "divide" /\ p.b.num = 0)

\* C10: for every operation and operands calculate accepts, the output is a
\* CalculateOutput that echoes operation, a and b and whose result is the
\* operation applied to a and b (as a fraction num/den); whatever the files
\* and the clock, the output is the same but for its timestamp field.
C10_CalculateCorrect ==
    (Served /\ request.name = "calculate" /\ ValidCalculate(request.arguments)) =>
        LET op == request.arguments.operation
            a == request.arguments.a.num
            b == request.arguments.b.num
        IN /\ reply.model = "CalculateOutput"
           /\ reply.operation = op
           /\ reply.operand_a = a
           /\ reply.operand_b = b
           /\ reply.result.den > 0
           /\ op = "add" => reply.result.num = (a + b) * reply.result.den
           /\ op = "subtract" => reply.result.num = (a - b) * reply.result.den
           /\ op = "multiply" => reply.result.num = (a * b) * reply.result.den
           /\ op = "divide" => reply.result.num * b = a * reply.result.den
           /\ \A files \in {fs, {}}, now \in Times :
                 LET o == call_tool("calculate", request.arguments, files, now).res.out
                 IN [o EXCEPT !.timestamp = 0] = [reply EXCEPT !.timestamp = 0]

\* C10 witness: 1 divided by 2 gave one half
C10_Witness ==
    /\ Served
    /\ request.name = "calculate"
    /\ request.arguments.operation = "divide"
    /\ request.arguments.a = Number(1)
    /\ request.arguments.b = Number(2)
    /\ reply.model = "CalculateOutput"
    /\ reply.result = [num |-> 1, den |-> 2]

\* the number of tool-role messages of the conversation that carry id
Answers(id) ==
    Cardinality({j \in 1..Len(messages) :
                    messages[j].role = "tool" /\ messages[j].tool_call_id = id})
\* the positions of the messages of the current turn; of the whole session
\* as long as no turn of it was aborted
UnabortedPositions ==
    (IF aborted = 0 THEN 1 ELSE Len(turnBase) + 1)..Len(messages)

\* C11: when an inference is requested, every ToolCall of every assistant
\* message of the (unaborted) current turn, and of every earlier turn as long
\* as no turn of the session was aborted, has exactly one tool-role message
\* with its id in the conversation.
C11_EveryCallAnswered ==
    pc = "infer" =>
        \A i \in UnabortedPositions :
            messages[i].role = "assistant" =>
                \A k \in 1..Len(messages[i].tool_calls) :
                    Answers(messages[i].tool_calls[k].id) = 1

\* C11 witness: the third inference of a turn is requested after a batch of
\* two calls and a batch of one
C11_Witness ==
    /\ pc = "infer"
    /\ nInfer >= 3
    /\ \E i \in Len(turnBase) + 1..Len(messages) :
          messages[i].role = "assistant" /\ Len(messages[i].tool_calls) = 2
    /\ \E i \in Len(turnBase) + 1..Len(messages) :
          messages[i].role = "assistant" /\ Len(messages[i].tool_calls) = 1

\* a turn is being processed
InTurn == pc \notin {"input", "done"}

\* C12: every turn terminates: if every inference and every tool call
\* eventually returns or raises, a turn that has started eventually is back
\* at input(), completed (answered) or aborted (warned or errored), whatever
\* the model answers.
C12_TurnTerminates ==
    InTurn ~> (AwaitingUserInput /\ turns > 0 /\ (answered \/ warned \/ errored))

\* C12 witness: a turn in which the model asked for tools on nine responses
\* and answered on the tenth is over
C12_Witness ==
    /\ AwaitingUserInput
    /\ turns > 0
    /\ answered
    /\ nInfer = max_iterations

\* the position of the nearest assistant message before position j (0: none)
PrecedingAssistant(j) ==
    LET before == {i \in 1..(j - 1) : messages[i].role = "assistant"}
    IN IF before = {} THEN 0 ELSE CHOOSE i \in before : \A k \in before : k <= i

\* C13: in every reachable conversation, the tool_call_id of a tool-role
\* message is the id of a call listed in the nearest assistant message
\* before it, and only tool-role messages lie between the two.
C13_ToolMessageRefersBack ==
    \A j \in 1..Len(messages) :
        messages[j].role = "tool" =>
            LET i == PrecedingAssistant(j) IN
            /\ i > 0
            /\ \E k \in 1..Len(messages[i].tool_calls) :
                  messages[i].tool_calls[k].id = messages[j].tool_call_id
            /\ \A m \in (i + 1)..(j - 1) : messages[m].role = "tool"

\* C13 witness: after an exception ended a turn, the conversation holds a
\* tool message of an earlier turn and one of the current turn
C13_Witness ==
    /\ aborted > 0
    /\ \E j \in 1..Len(messages) :
          /\ messages[j].role = "tool"
          /\ j < Len(turnBase)
    /\ \E j \in 1..Len(messages) :
          /\ messages[j].role = "tool"
          /\ j > Len(turnBase) + 1

\* the message at position i is an assistant message that lists the call id
Lists(i, id) ==
    /\ messages[i].role = "assistant"
    /\ \E k \in 1..Len(messages[i].tool_calls) : messages[i].tool_calls[k].id = id

\* C14: a response that carries tool calls is appended as an assistant
\* message, tool-call list included, before the first call of its batch is
\* dispatched; so every tool-role message comes after the assistant message
\* that lists its call, never before it.
C14_AssistantFirst ==
    /\ [][(pc = "infer" /\ event' = "calls") =>
             /\ Len(tool_calls') >= 1
             /\ messages' = Append(messages,
                    [role |-> "assistant", content |-> None,
                     tool_calls |-> tool_calls', tool_call_id |-> 0])
             /\ pc' = "call"
             /\ idx' = 1]_vars
    /\ [][(pc = "call" /\ pc' = "tool") =>
             /\ Len(messages) >= idx
             /\ messages[Len(messages) - (idx - 1)].role = "assistant"
             /\ messages[Len(messages) - (idx - 1)].tool_calls = tool_calls]_vars
    /\ [](\A j \in 1..Len(messages) :
             messages[j].role = "tool" =>
                /\ \E i \in 1..(j - 1) : Lists(i, messages[j].tool_call_id)
                /\ \A i \in (j + 1)..Len(messages) :
                      ~Lists(i, messages[j].tool_call_id))

\* C14 witness: the first call of a batch of two is in flight; the last
\* message is the assistant message of the batch
C14_Witness ==
    /\ pc = "tool"
    /\ idx = 1
    /\ Len(tool_calls) = 2
    /\ Last(messages).role = "assistant"
    /\ Last(messages).tool_calls = tool_calls

\* C15: a response without tool calls ends the turn as complete: exactly
\* one assistant message (without tool calls) is appended for it, the loop is
\* back at input() without a tool being dispatched, and no inference is
\* issued until a new user message starts the next turn.
C15_AnswerCompletesTurn ==
    /\ [][(pc = "infer" /\ event' = "answer") =>
             /\ Len(messages') = Len(messages) + 1
             /\ SubSeq(messages', 1, Len(messages)) = messages
             /\ Last(messages').role = "assistant"
             /\ Last(messages').tool_calls = <<>>
             /\ Last(messages').content \in FinalContents
             /\ pc' = "input"
             /\ answered'
             /\ ~errored'
             /\ aborted' = aborted
             /\ nInfer' = nInfer]_vars
    /\ [][(AwaitingUserInput /\ answered) =>
             \/ pc' \in {"input", "done"} /\ nInfer' = nInfer /\ messages' = messages
             \/ turns' = turns + 1 /\ Last(messages').role = "user"]_vars

\* C15 witness: the first response of a turn carried no tool calls; the turn
\* is over with the user message and the answer appended
C15_Witness ==
    /\ AwaitingUserInput
    /\ answered
    /\ ~errored
    /\ event = "answer"
    /\ nInfer = 1
    /\ Len(messages) = Len(turnBase) + 2
    /\ Last(messages).role = "assistant"

\* C16 (as claimed): on every turn-level failure the user message of the
\* turn is removed from the conversation and the assistant and tool messages
\* the turn appended after it are kept.
C16_UserMessageRemoved ==
    [][aborted' # aborted =>
          messages' = SubSeq(messages, 1, Len(turnBase))
                      \o SubSeq(messages, Len(turnBase) + 2, Len(messages))]_vars

\* the exception the try block of the handler raises for the request r when
\* the files are as they are (NoException: none)
RaisedFor(r) == tryBlock(r.name, r.arguments, fs, 1).exc
\* the handler got past validation and failed while executing
FailsExecuting(r) ==
    /\ r.name \in ToolNames
    /\ RaisedFor(r) # NoException
    /\ RaisedFor(r).type # "ValidationError"

\* C17 (as claimed): when a handler fails during execution the error result
\* carries the exception's type name and the exception's own message,
\* unchanged, for every handler and failure, read_file on a missing file
\* included.
C17_FailureVerbatim ==
    [][(Serving /\ FailsExecuting(request')) =>
          /\ IsErrorResult(reply')
          /\ reply'.error_type = RaisedFor(request').type
          /\ reply'.error_message = RaisedFor(request').message]_vars

\* C17 (amended): every exception raised in the try block of a handler,
\* validation errors included, comes back as an error result with the
\* exception's type name; the message is the exception's own message, except
\* for FileNotFoundError in read_file, whose message is replaced by
\* "File '<filename>' not found" built from the filename of the request.
C17_FailureReported ==
    [][(Serving /\ request'.name \in ToolNames
                /\ RaisedFor(request') # NoException) =>
          LET e == RaisedFor(request') IN
          /\ IsErrorResult(reply')
          /\ reply'.error_type = e.type
          /\ IF request'.name = "read_file" /\ e.type = "FileNotFoundError"
             THEN /\ reply'.error_message.subject = request'.arguments.filename.chars
                  /\ reply'.error_message.text = "File '{filename}' not found"
                  /\ reply'.error_message # e.message
             ELSE reply'.error_message = e.message]_vars

\* C17 witness: read_file was asked for a file that does not exist and
\* answered with its own message
C17_Witness ==
    /\ Served
    /\ request.name = "read_file"
    /\ request.arguments.filename = Text(<<"a", "a">>)
    /\ ~exists(fs, <<"a", "a">>)
    /\ reply.error_type = "FileNotFoundError"
    /\ reply.error_message.text = "File '{filename}' not found"
    /\ opens = <<Opened(<<"a", "a">>, "r")>>

\* C18: calculate rejects b = 0 exactly when the operation is divide: divide
\* with b = 0 gives an error result for every a (naming the division by zero
\* when a is a number), add, subtract and multiply with b = 0 and divide with
\* b # 0 give a CalculateOutput; whatever the payload, calculate returns an
\* output model and raises nothing.
C18_DivideByZeroOnly ==
    (Served /\ request.name = "calculate") =>
        LET op == request.arguments.operation
            a == request.arguments.a
            b == request.arguments.b
        IN /\ reply.model \in {"CalculateOutput", "ErrorOutput"}
           /\ handler = "calculate"
           /\ (op = "divide" /\ b = Number(0)) =>
                 /\ IsErrorResult(reply)
                 /\ reply.error_type = "ValidationError"
                 /\ Has(reply.error_message.errors,
                        "b: Value error, Cannot divide by zero")
           /\ (op \in Operations \ {"divide"} /\ b = Number(0) /\ a.kind = "num") =>
                 reply.model = "CalculateOutput"
           /\ (op = "divide" /\ b.kind = "num" /\ b # Number(0) /\ a.kind = "num") =>
                 reply.model = "CalculateOutput"

\* C18 witness: multiply by zero was answered with a CalculateOutput
C18_Witness ==
    /\ Served
    /\ request.name = "calculate"
    /\ request.arguments.operation = "multiply"
    /\ request.arguments.a = Number(2)
    /\ request.arguments.b = Number(0)
    /\ reply.model = "CalculateOutput"
    /\ reply.result = [num |-> 0, den |-> 1]

\* the calls of the current batch before position i are answered once, the
\* calls from position i on are not answered
AnsweredBefore(i) ==
    \A k \in 1..Len(tool_calls) :
        Answers(tool_calls[k].id) = IF k < i THEN 1 ELSE 0

\* C19: execution is sequential.  While a call is in flight (the loop awaits
\* session.call_tool for call idx) it is the only one: the calls before it
\* are answered, the calls after it are not dispatched.  Call idx is
\* dispatched only when the results of all calls before it are appended; an
\* inference is requested only at the start of a turn or when the whole
\* batch is answered; a user message is accepted only at input(), with the
\* previous turn complete or aborted.
C19_Sequential ==
    /\ [](pc = "tool" => (idx \in 1..Len(tool_calls) /\ AnsweredBefore(idx)))
    /\ [][(pc = "call" /\ pc' = "tool") =>
             (idx' = idx /\ messages' = messages /\ AnsweredBefore(idx))]_vars
    /\ [][(pc # "infer" /\ pc' = "infer") =>
             /\ pc = "loop"
             /\ iteration = 0 \/ AnsweredBefore(Len(tool_calls) + 1)]_vars
    /\ [][(InTurn /\ pc # "loop") => (pc' = "infer" => pc = "infer")]_vars
    /\ [][turns' # turns =>
             /\ ~InTurn
             /\ turns = 0 \/ answered \/ warned \/ errored]_vars
    /\ [][InTurn => (turns' = turns /\ turnBase' = turnBase
                     /\ (messages' # messages =>
                            (Len(messages') < Len(messages)
                             \/ Last(messages').role # "user")))]_vars

\* C19 witness: the second call of a batch of two is in flight; the result
\* of the first is appended, that of the second is not
C19_Witness ==
    /\ pc = "tool"
    /\ idx = 2
    /\ Len(tool_calls) = 2
    /\ Answers(tool_calls[1].id) = 1
    /\ Answers(tool_calls[2].id) = 0
    /\ Last(messages).role = "tool"

\* the inputs that are empty or hold only whitespace
Blank == {"", "  "}

\* C20: an empty or whitespace-only input starts no turn: the conversation,
\* the counters and the position of the loop (input()) stay as they are and
\* no inference is requested; the loop leaves input() for a turn only by
\* appending a user message whose content is not blank, and inferences are
\* requested only inside a turn.
C20_EmptyInputNoTurn ==
    /\ [][(AwaitingUserInput /\ event' = "empty") =>
             /\ messages' = messages
             /\ pc' = "input"
             /\ nInfer' = nInfer
             /\ iteration' = iteration
             /\ turns' = turns
             /\ turnBase' = turnBase]_vars
    /\ [][(AwaitingUserInput /\ (messages' # messages \/ pc' \notin {"input", "done"})) =>
             /\ Len(messages') = Len(messages) + 1
             /\ SubSeq(messages', 1, Len(messages)) = messages
             /\ Last(messages').role = "user"
             /\ Last(messages').content \notin Blank
             /\ pc' = "loop"
             /\ turns' = turns + 1]_vars
    /\ [][nInfer' > nInfer => (pc = "loop" /\ pc' = "infer")]_vars

\* C20 witness: after a completed turn an empty input was read; the loop is
\* at input() and the conversation ends with the answer of that turn
C20_Witness ==
    /\ AwaitingUserInput
    /\ event = "empty"
    /\ turns = 1
    /\ answered
    /\ Last(messages).role = "assistant"
    /\ Len(messages) = 3

\* C21: the conversation log is append-only outside the except handler.  A
\* step that is no rollback leaves the previous log as a prefix of the new
\* one, so the length never decreases and no message is edited or reordered;
\* the rollback of the except handler leaves a prefix of the previous log
\* that is at most one message shorter.
C21_AppendOnly ==
    [][/\ aborted' = aborted => IsPrefix(messages, messages')
       /\ aborted' # aborted =>
             /\ IsPrefix(messages', messages)
             /\ Len(messages) - Len(messages') <= 1]_vars

\* C21 witness: the second inference of a turn raised, after the user
\* message, an assistant message and a tool result were appended; the
\* handler has run and the log still ends in the tool result
C21_Witness ==
    /\ AwaitingUserInput
    /\ errored
    /\ event = "model_raises"
    /\ nInfer >= 2
    /\ Len(messages) >= Len(turnBase) + 3
    /\ Last(messages).role = "tool"

\* C22: the iteration counter is per turn.  Every step that starts a user
\* turn sets the counter to 0, whatever it was and however the turns before
\* ended; the counter then counts the inference requests of this turn only;
\* and below max_iterations the while loop never stops the turn: from the
\* loop condition the only step is the next inference request.
C22_CounterPerTurn ==
    /\ [][turns' # turns =>
              (iteration' = 0 /\ nInfer' = 0 /\ pc' = "loop")]_vars
    /\ [](nInfer = iteration)
    /\ [][(pc = "loop" /\ iteration < max_iterations) =>
              (pc' = "infer" /\ iteration' = iteration + 1
                             /\ turns' = turns)]_vars

\* C22 witness: the first turn was stopped at the ceiling after
\* max_iterations batches of one call, and the second turn has again made
\* max_iterations inference requests
C22_Witness ==
    /\ turns = 2
    /\ nInfer = max_iterations
    /\ iteration = max_iterations
    /\ Len(turnBase) = 2 + 2 * max_iterations
    /\ Last(turnBase).role = "tool"

\* C23: a turn that ended because the model returned a response without
\* tool calls is never also reported as stopped: the maximum-iterations
\* warning is printed only for turns stopped while the model was still asking
\* for tools, also when the final answer arrives in cycle max_iterations.
\* The code prints the warning after the break as well when the answer came
\* in cycle max_iterations, so this predicate is violated.
C23_WarningOnlyWhenStopped ==
    (AwaitingUserInput /\ turns > 0 /\ answered) => ~warned

\* C24: at every model-inference request of the session, in any turn and
\* after any sequence of completed and aborted turns, every ToolCall listed
\* in an assistant message of the conversation has a tool-role message with
\* its id.  An aborted turn leaves the assistant message of its unfinished
\* batch in the log and the next turn's request sends it, so this predicate
\* is violated.
C24_NoUnansweredCallReplayed ==
    pc = "infer" =>
        \A i \in 1..Len(messages) :
            messages[i].role = "assistant" =>
                \A k \in 1..Len(messages[i].tool_calls) :
                    Answers(messages[i].tool_calls[k].id) >= 1

\* the turn that just ended was stopped by the while condition at the ceiling
StoppedAtCeiling ==
    AwaitingUserInput /\ turns > 0 /\ warned /\ ~answered /\ ~errored
\* the positions of the messages the current turn appended
TurnPositions == (Len(turnBase) + 1)..Len(messages)
\* the number of messages of a role among the messages of the current turn
TurnCount(role) == Cardinality({j \in TurnPositions : messages[j].role = role})

\* C25: when a turn is stopped at the iteration ceiling, the batch of the
\* last model response has been fully dispatched and answered before the
\* stop, and the stop rolls nothing back.  After the stop the conversation
\* still holds the log from before the turn, the turn's user message, its
\* max_iterations assistant messages and one tool result for every call they
\* list; the next turn's user message is appended after them.
C25_CeilingKeepsTurn ==
    /\ [][(pc = "loop" /\ pc' = "input") =>
              /\ iteration = max_iterations
              /\ Len(tool_calls) >= 1
              /\ idx = Len(tool_calls) + 1
              /\ AnsweredBefore(Len(tool_calls) + 1)
              /\ messages' = messages
              /\ aborted' = aborted]_vars
    /\ [](StoppedAtCeiling =>
              /\ IsPrefix(turnBase, messages)
              /\ Len(messages) > Len(turnBase)
              /\ messages[Len(turnBase) + 1].role = "user"
              /\ TurnCount("user") = 1
              /\ TurnCount("assistant") = max_iterations
              /\ Last(messages).role = "tool"
              /\ \A j \in TurnPositions :
                    messages[j].role = "assistant" =>
                        /\ Len(messages[j].tool_calls) >= 1
                        /\ \A k \in 1..Len(messages[j].tool_calls) :
                              \E m \in TurnPositions :
                                  /\ m > j
                                  /\ messages[m].role = "tool"
                                  /\ messages[m].tool_call_id =
                                        messages[j].tool_calls[k].id)
    /\ [][(StoppedAtCeiling /\ turns' # turns) =>
              /\ Len(messages') = Len(messages) + 1
              /\ IsPrefix(messages, messages')
              /\ Last(messages').role = "user"
              /\ turnBase' = messages]_vars

\* C25 witness: a turn was stopped at the ceiling, its last batch being one
\* of two calls, and the user message of the next turn follows the second
\* tool result of that batch
C25_Witness ==
    /\ turns = 2
    /\ pc = "loop"
    /\ iteration = 0
    /\ aborted = 0
    /\ Len(messages) = 4 + 2 * max_iterations
    /\ Last(messages).role = "user"
    /\ messages[Len(messages) - 1].role = "tool"
    /\ messages[Len(messages) - 2].role = "tool"
    /\ messages[Len(messages) - 3].role = "assistant"
    /\ Len(messages[Len(messages) - 3].tool_calls) = 2

==========================================================================
